---- MODULE Spec2Model ----
(***************************************************************************)
(* slycer (src/src/main.rs): the yt-dlp process runner                     *)
(* run_ytdlp_with_progress, its two output tailers, the shared recent-     *)
(* lines buffer, the progress-line parser, and the caller's handling of    *)
(* the runner's result.                                                    *)
(*                                                                         *)
(* A line of text is a sequence of one-character strings.  A byte that is  *)
(* not valid UTF-8 is the element INVALID.  An Option<String> is a         *)
(* sequence of zero (None) or one (Some) texts.                            *)
(***************************************************************************)
EXTENDS Integers, Sequences, FiniteSets, TLC

(***************************************************************************)
(* Bounds of the model.                                                    *)
(***************************************************************************)
\* lines the child writes in one run, over both streams
MaxLines == 7
\* lines an OS pipe holds before a write blocks
PipeCap == 1
\* lines a tailer's loop takes when it is followed on its own
MaxParsed == 2
\* URL lines of a batch file
MaxUrls == 3
\* chapters of a video
MaxChapters == 2

(***************************************************************************)
(* Program constants.                                                      *)
(***************************************************************************)
\* dq.len() == 5: capacity of the recent-lines buffer
LogCap == 5
\* logs_bars: Vec::with_capacity(5), for _ in 0..5
NumLogBars == 5
\* ProgressBar::new(1000), pb.set_length(1000), .min(1000)
PermilleMax == 1000
\* format!("{s:>10}")
SpeedWidth == 10
\* u64::MAX, as its decimal digits (the checker's integers are 32 bits wide)
U64MaxDigits == <<"1", "8", "4", "4", "6", "7", "4", "4", "0", "7", "3", "7", "0", "9", "5",
                  "5", "1", "6", "1", "5">>

(***************************************************************************)
(* Text helpers: the std::str operations the parser uses.                  *)
(***************************************************************************)
INVALID == "<invalid-utf8>"
ESC_GRAY == "\\x1b[90m"
ESC_RESET == "\\x1b[0m"

WS == {" ", "\t"}
Digits == <<"0", "1", "2", "3", "4", "5", "6", "7", "8", "9">>
DigitChars == {Digits[i] : i \in 1..10}

DigitVal(c) == (CHOOSE i \in 1..10 : Digits[i] = c) - 1

Min(a, b) == IF a < b THEN a ELSE b

\* str::starts_with
StartsWith(s, p) == Len(s) >= Len(p) /\ SubSeq(s, 1, Len(p)) = p

\* str::contains(char)
Contains(s, c) == \E i \in 1..Len(s) : s[i] = c

\* index of the first c in s, Len(s)+1 when there is none
FirstIndex(s, c) ==
    IF Contains(s, c) THEN CHOOSE i \in 1..Len(s) : s[i] = c /\ \A j \in 1..(i-1) : s[j] # c
    ELSE Len(s) + 1

\* s.split(c).next(): the text before the first c
BeforeFirst(s, c) == SubSeq(s, 1, FirstIndex(s, c) - 1)

\* the rest after the first c (empty when there is no c)
AfterFirst(s, c) == SubSeq(s, FirstIndex(s, c) + 1, Len(s))

\* str::split_whitespace, collected: the maximal runs of non-whitespace
RECURSIVE SplitWs(_, _, _)
SplitWs(s, i, cur) ==
    IF i > Len(s) THEN (IF cur = <<>> THEN <<>> ELSE <<cur>>)
    ELSE IF s[i] \in WS
         THEN (IF cur = <<>> THEN <<>> ELSE <<cur>>) \o SplitWs(s, i + 1, <<>>)
         ELSE SplitWs(s, i + 1, Append(cur, s[i]))

split_whitespace(s) == SplitWs(s, 1, <<>>)

\* str::replace(pat, ""): every non-overlapping occurrence removed, left to right
RECURSIVE RemoveAll(_, _)
RemoveAll(s, pat) ==
    IF s = <<>> THEN <<>>
    ELSE IF StartsWith(s, pat) THEN RemoveAll(SubSeq(s, Len(pat) + 1, Len(s)), pat)
    ELSE <<s[1]>> \o RemoveAll(Tail(s), pat)

\* a digit string without its leading zeros
RECURSIVE StripZeros(_)
StripZeros(s) == IF s # <<>> /\ s[1] = "0" THEN StripZeros(Tail(s)) ELSE s

\* a <= b for digit strings of the same length
RECURSIVE DigitsLeq(_, _)
DigitsLeq(a, b) ==
    IF a = <<>> THEN TRUE
    ELSE IF DigitVal(a[1]) # DigitVal(b[1]) THEN DigitVal(a[1]) < DigitVal(b[1])
    ELSE DigitsLeq(Tail(a), Tail(b))

\* whether the number a digit string names fits a u64
FitsU64(s) ==
    LET t == StripZeros(s)
    IN  Len(t) < Len(U64MaxDigits) \/ (Len(t) = Len(U64MaxDigits) /\ DigitsLeq(t, U64MaxDigits))

\* value of a digit string, most significant first, saturating at cap
RECURSIVE DecValCapped(_, _)
DecValCapped(s, cap) ==
    IF s = <<>> THEN 0
    ELSE Min(DecValCapped(SubSeq(s, 1, Len(s) - 1), cap) * 10 + DigitVal(s[Len(s)]), cap)

\* mutant: a whole part that is no number counts as 0 (unwrap_or(0) for .ok()?)
ParseU64_OrZero(s) ==
    LET body == IF s # <<>> /\ s[1] = "+" THEN Tail(s) ELSE s
    IN  IF body = <<>> \/ \E i \in 1..Len(body) : body[i] \notin DigitChars THEN <<0>>
        ELSE IF ~FitsU64(body) THEN <<0>>
        ELSE <<DecValCapped(body, PermilleMax)>>

\* str::parse::<u64>(): an optional '+', then one or more digits, at most u64::MAX;
\* <<>> is Err, <<n>> is Ok(n).  The value is kept up to PermilleMax: the only use
\* of it is min(n * 10 + d, 1000), which every n >= PermilleMax decides alike.
ParseU64(s) ==
    LET body == IF s # <<>> /\ s[1] = "+" THEN Tail(s) ELSE s
    IN  IF body = <<>> \/ \E i \in 1..Len(body) : body[i] \notin DigitChars THEN <<>>
        ELSE IF ~FitsU64(body) THEN <<>>
        ELSE <<DecValCapped(body, PermilleMax)>>

\* format!("{n}") of an unsigned integer
RECURSIVE DecStr(_)
DecStr(n) == IF n < 10 THEN <<Digits[n + 1]>> ELSE DecStr(n \div 10) \o <<Digits[(n % 10) + 1]>>

\* format!("{s:>10}"): right-aligned in a field of SpeedWidth, never cut
RECURSIVE PadLeft(_, _)
PadLeft(s, w) == IF Len(s) >= w THEN s ELSE PadLeft(<<" ">> \o s, w)

DOWNLOAD == <<"[", "d", "o", "w", "n", "l", "o", "a", "d", "]">>
AT == <<"a", "t">>
ETA == <<"E", "T", "A">>
UNKNOWN == <<"U", "n", "k", "n", "o", "w", "n">>
SP_ETA == <<" ", "E", "T", "A">>

(***************************************************************************)
(* parse_ytdlp_progress (main.rs 649-696).                                 *)
(***************************************************************************)
None == [some |-> FALSE, permille |-> 0, speed |-> <<>>, eta |-> <<>>]

\* mutant: Unknown is taken as a value like any other
RECURSIVE ScanPieces_UnknownAsValue(_, _, _, _)
ScanPieces_UnknownAsValue(pieces, i, speed, eta) ==
    IF i > Len(pieces) THEN [speed |-> speed, eta |-> eta]
    ELSE LET word == pieces[i] IN
         IF word = AT THEN
             IF i + 1 > Len(pieces) THEN ScanPieces_UnknownAsValue(pieces, i + 1, speed, eta)
             ELSE LET val == pieces[i + 1]
                      unit == IF i + 2 <= Len(pieces) THEN pieces[i + 2] ELSE <<>>
                      text == RemoveAll(val \o <<" ">> \o unit, SP_ETA)
                  IN  ScanPieces_UnknownAsValue(pieces, i + 3, <<text>>, eta)
         ELSE IF word = ETA THEN
             IF i + 1 > Len(pieces) THEN ScanPieces_UnknownAsValue(pieces, i + 1, speed, eta)
             ELSE ScanPieces_UnknownAsValue(pieces, i + 2, speed, <<pieces[i + 1]>>)
         ELSE ScanPieces_UnknownAsValue(pieces, i + 1, speed, eta)

\* the while-let over pieces (673-693): i is the iterator's position
RECURSIVE ScanPieces(_, _, _, _)
ScanPieces(pieces, i, speed, eta) ==
    IF i > Len(pieces) THEN [speed |-> speed, eta |-> eta]
    ELSE LET word == pieces[i] IN
         IF word = AT THEN
             IF i + 1 > Len(pieces) THEN ScanPieces(pieces, i + 1, speed, eta)
             ELSE LET val == pieces[i + 1] IN
                  IF val = UNKNOWN
                  THEN ScanPieces(pieces, i + 3, speed, eta)
                  ELSE LET unit == IF i + 2 <= Len(pieces) THEN pieces[i + 2] ELSE <<>>
                           text == RemoveAll(val \o <<" ">> \o unit, SP_ETA)
                       IN  ScanPieces(pieces, i + 3, <<text>>, eta)
         ELSE IF word = ETA THEN
             IF i + 1 > Len(pieces) THEN ScanPieces(pieces, i + 1, speed, eta)
             ELSE LET val == pieces[i + 1] IN
                  ScanPieces(pieces, i + 2, speed, IF val # UNKNOWN THEN <<val>> ELSE eta)
         ELSE ScanPieces(pieces, i + 1, speed, eta)

\* mutant: the sum is not clamped
Permille_NoClamp(whole_num, frac_digit) == whole_num * 10 + frac_digit

\* whole_num.saturating_mul(10).saturating_add(frac_digit).min(1000) (664-667)
Permille(whole_num, frac_digit) == Min(whole_num * 10 + frac_digit, PermilleMax)

parse_ytdlp_progress(line) ==
    IF ~StartsWith(line, DOWNLOAD) \/ ~Contains(line, "%") THEN None
    ELSE LET percent_part == BeforeFirst(line, "%")
             toks == split_whitespace(percent_part)
         IN  IF toks = <<>> THEN None
             ELSE LET token == toks[Len(toks)]
                      whole == BeforeFirst(token, ".")
                      whole_num == ParseU64(whole)
                  IN  IF whole_num = <<>> THEN None
                      ELSE LET second == BeforeFirst(AfterFirst(token, "."), ".")
                               frac_digit ==
                                   IF Contains(token, ".") /\ second # <<>>
                                      /\ second[1] \in DigitChars
                                   THEN DigitVal(second[1]) ELSE 0
                               permille == Permille(whole_num[1], frac_digit)
                               sc == ScanPieces(split_whitespace(line), 1, <<>>, <<>>)
                           IN  [some |-> TRUE, permille |-> permille,
                                speed |-> sc.speed, eta |-> sc.eta]

(***************************************************************************)
(* Lines handed to the tailer's loop when it is followed on its own: they   *)
(* are put together from a head, the percentage token and the rest of the  *)
(* line.                                                                   *)
(***************************************************************************)
\* rests of a progress line, as yt-dlp prints them
TAIL_SAMPLE ==
    <<" ", "o", "f", " ", " ", " ", "5", "9", ".", "1", "0", "M", "i", "B", " ", "a", "t",
      " ", " ", " ", " ", "3", ".", "4", "7", "M", "i", "B", "/", "s", " ", "E", "T", "A",
      " ", "0", "0", ":", "0", "1">>
TAIL_UNIT ==
    <<" ", "o", "f", " ", "5", ".", "0", "0", "M", "i", "B", " ", "a", "t", " ", "1", ".",
      "0", "0", " ", "M", "i", "B", "/", "s", " ", "E", "T", "A", " ", "0", "0", ":", "0",
      "3">>
TAIL_UNKNOWN ==
    <<" ", "o", "f", " ", "5", ".", "0", "0", "M", "i", "B", " ", "a", "t", " ", "U", "n",
      "k", "n", "o", "w", "n", " ", "B", "/", "s", " ", "E", "T", "A", " ", "U", "n", "k",
      "n", "o", "w", "n">>
TAIL_SPEED_UNKNOWN ==
    <<" ", "o", "f", " ", "5", ".", "0", "0", "M", "i", "B", " ", "a", "t", " ", "U", "n",
      "k", "n", "o", "w", "n", " ", "B", "/", "s", " ", "E", "T", "A", " ", "0", "0", ":",
      "0", "9">>
TAIL_SPEED_UNKNOWN_BARE ==
    <<" ", "o", "f", " ", "5", ".", "0", "0", "M", "i", "B", " ", "a", "t", " ", "U", "n",
      "k", "n", "o", "w", "n", " ", "E", "T", "A", " ", "0", "0", ":", "0", "9">>
TAIL_ETA_UNKNOWN ==
    <<" ", "o", "f", " ", "5", ".", "0", "0", "M", "i", "B", " ", "a", "t", " ", "3", ".",
      "4", "7", "M", "i", "B", "/", "s", " ", "E", "T", "A", " ", "U", "n", "k", "n", "o",
      "w", "n">>
TAIL_UNIT_ETA_UNKNOWN ==
    <<" ", "o", "f", " ", "5", ".", "0", "0", "M", "i", "B", " ", "a", "t", " ", "1", ".",
      "0", "0", " ", "M", "i", "B", "/", "s", " ", "E", "T", "A", " ", "U", "n", "k", "n",
      "o", "w", "n">>
TAIL_PLAIN ==
    <<" ", "o", "f", " ", "5", ".", "0", "0", "M", "i", "B", " ", "i", "n", " ", "0", "0",
      ":", "1", "0">>

Tails == {TAIL_SAMPLE, TAIL_UNIT, TAIL_UNKNOWN, TAIL_SPEED_UNKNOWN, TAIL_SPEED_UNKNOWN_BARE,
          TAIL_ETA_UNKNOWN, TAIL_UNIT_ETA_UNKNOWN, TAIL_PLAIN, <<>>}
UnknownSpeedTails == {TAIL_UNKNOWN, TAIL_SPEED_UNKNOWN, TAIL_SPEED_UNKNOWN_BARE}
UnknownEtaTails == {TAIL_UNKNOWN, TAIL_ETA_UNKNOWN, TAIL_UNIT_ETA_UNKNOWN}

\* whole parts of a percentage, and the forms of its fraction: none, or one digit
SmallWholes == {0, 7, 81, 99, 100, 101, 150, 1000}
FracForms == {[text |-> <<>>, d |-> 0], [text |-> <<".", "0">>, d |-> 0],
              [text |-> <<".", "6">>, d |-> 6], [text |-> <<".", "9">>, d |-> 9]}

\* u64::MAX + 1, as its decimal digits
U64OverDigits == <<"1", "8", "4", "4", "6", "7", "4", "4", "0", "7", "3", "7", "0", "9", "5",
                   "5", "1", "6", "1", "6">>

\* "[download]  <whole><frac>%<tail>"
ProgressLine(whole, frac, tail) == DOWNLOAD \o <<" ", " ">> \o whole \o frac \o <<"%">> \o tail

\* the line of the parser's documentation (549-550)
SampleLine == ProgressLine(<<"8", "1">>, <<".", "6">>, TAIL_SAMPLE)

WellFormedLines ==
    {ProgressLine(DecStr(D), f.text, tl) : D \in SmallWholes, f \in FracForms, tl \in Tails}
HugeLines ==
    {ProgressLine(w, f.text, TAIL_SAMPLE) : w \in {U64MaxDigits, U64OverDigits}, f \in FracForms}

\* lines that do not start with [download]
NoMarkerLines == {
    <<>>,
    <<"[", "i", "n", "f", "o", "]", " ", " ", "8", "1", ".", "6", "%", " ", "o", "f", " ",
      "5", ".", "0", "0", "M", "i", "B", " ", "a", "t", " ", "3", ".", "4", "7", "M", "i",
      "B", "/", "s", " ", "E", "T", "A", " ", "0", "0", ":", "0", "1">>,
    <<" ", "[", "d", "o", "w", "n", "l", "o", "a", "d", "]", " ", " ", "8", "1", ".", "6",
      "%", " ", "o", "f", " ", "5", ".", "0", "0", "M", "i", "B">>,
    <<"W", "A", "R", "N", "I", "N", "G", ":", " ", "5", "0", "%", " ", "d", "o", "n", "e">>}

\* lines that start with [download] and have no %
NoPercentLines == {
    <<"[", "d", "o", "w", "n", "l", "o", "a", "d", "]", " ", "D", "e", "s", "t", "i", "n",
      "a", "t", "i", "o", "n", ":", " ", "o", "u", "t", ".", "m", "p", "3">>,
    <<"[", "d", "o", "w", "n", "l", "o", "a", "d", "]", " ", " ", "8", "1", ".", "6", " ",
      "o", "f", " ", "5", ".", "0", "0", "M", "i", "B", " ", "a", "t", " ", "3", ".", "4",
      "7", "M", "i", "B", "/", "s", " ", "E", "T", "A", " ", "0", "0", ":", "0", "1">>}

\* lines that start with [download] and have a %, the whole part of the token before it
\* no number
NonNumericLines == {
    <<"[", "d", "o", "w", "n", "l", "o", "a", "d", "]", " ", " ", "N", "/", "A", "%", " ",
      "o", "f", " ", "5", ".", "0", "0", "M", "i", "B", " ", "a", "t", " ", "3", ".", "4",
      "7", "M", "i", "B", "/", "s", " ", "E", "T", "A", " ", "0", "0", ":", "0", "1">>,
    <<"[", "d", "o", "w", "n", "l", "o", "a", "d", "]", " ", " ", ".", "5", "%", " ", "o",
      "f", " ", "5", ".", "0", "0", "M", "i", "B">>,
    <<"[", "d", "o", "w", "n", "l", "o", "a", "d", "]", " ", " ", "-", "5", ".", "0", "%",
      " ", "o", "f", " ", "5", ".", "0", "0", "M", "i", "B">>,
    <<"[", "d", "o", "w", "n", "l", "o", "a", "d", "]", "8", "1", ".", "6", "%", " ", "o",
      "f", " ", "5", ".", "0", "0", "M", "i", "B">>,
    <<"[", "d", "o", "w", "n", "l", "o", "a", "d", "]", " ", " ", "8", "x", ".", "6", "%",
      " ", "o", "f", " ", "5", ".", "0", "0", "M", "i", "B">>,
    <<"[", "d", "o", "w", "n", "l", "o", "a", "d", "]", "%", " ", "o", "f", " ", "5", ".",
      "0", "0", "M", "i", "B">>}

\* other percentages: a sign, an empty fraction, two fractions, a fraction that is no
\* digit, more than one fractional digit, leading zeros
OddLines == {
    <<"[", "d", "o", "w", "n", "l", "o", "a", "d", "]", " ", " ", "+", "5", ".", "5", "%",
      " ", "o", "f", " ", "5", ".", "0", "0", "M", "i", "B">>,
    <<"[", "d", "o", "w", "n", "l", "o", "a", "d", "]", " ", " ", "7", ".", "%", " ", "o",
      "f", " ", "5", ".", "0", "0", "M", "i", "B">>,
    <<"[", "d", "o", "w", "n", "l", "o", "a", "d", "]", " ", " ", "1", ".", "2", ".", "3",
      "%", " ", "o", "f", " ", "5", ".", "0", "0", "M", "i", "B">>,
    <<"[", "d", "o", "w", "n", "l", "o", "a", "d", "]", " ", " ", "1", "2", ".", "x", "%",
      " ", "o", "f", " ", "5", ".", "0", "0", "M", "i", "B">>,
    <<"[", "d", "o", "w", "n", "l", "o", "a", "d", "]", " ", " ", "8", "1", ".", "6", "5",
      "%", " ", "o", "f", " ", "5", ".", "0", "0", "M", "i", "B">>,
    <<"[", "d", "o", "w", "n", "l", "o", "a", "d", "]", " ", " ", "0", "0", "7", ".", "2",
      "%", " ", "o", "f", " ", "5", ".", "0", "0", "M", "i", "B">>}

ParserInputs == WellFormedLines \cup HugeLines \cup NoMarkerLines \cup NoPercentLines
                \cup NonNumericLines \cup OddLines

(***************************************************************************)
(* The lines a child writes in this model.  It numbers its log lines, so   *)
(* that no two are the same text: odd ones read "ERROR: k", even ones      *)
(* "[download] Destination: k" (a [download] line that is no progress      *)
(* reading).  Besides them it writes a progress line, and a line that is   *)
(* not valid UTF-8 (BufRead::lines yields Err for it).                     *)
(***************************************************************************)
PlainLine(k) ==
    IF k % 2 = 1
    THEN <<"E", "R", "R", "O", "R", ":", " ">> \o DecStr(k)
    ELSE DOWNLOAD \o <<" ", "D", "e", "s", "t", "i", "n", "a", "t", "i", "o", "n", ":", " ">>
         \o DecStr(k)
LineProgress == DOWNLOAD \o <<" ", " ", "8", "1", ".", "6", "%", " ", "o", "f", " ", "5", "M",
                              " ", "a", "t", " ", " ", "3", ".", "4", "7", "M", "i", "B", "/", "s",
                              " ", "E", "T", "A", " ", "0", "0", ":", "0", "1">>
LineBad == <<"x", INVALID>>

PlainLines == {PlainLine(k) : k \in 1..MaxLines}
TextLines == PlainLines \cup {LineProgress}

\* the same lines, worded by the stream they are written to: "[download] Destination:
\* k" and the progress line on stdout, "ERROR: k" and another progress line on stderr
LineProgressErr ==
    <<"[", "d", "o", "w", "n", "l", "o", "a", "d", "]", " ", " ", "1", "2", ".", "3", "%",
      " ", "o", "f", " ", "5", "M", " ", "a", "t", " ", " ", "1", ".", "0", "0", "M", "i",
      "B", "/", "s", " ", "E", "T", "A", " ", "0", "0", ":", "0", "9">>
StreamLine(s, k) == IF s = "stdout" THEN PlainLine(2 * k) ELSE PlainLine(2 * k - 1)
StreamProgress(s) == IF s = "stdout" THEN LineProgress ELSE LineProgressErr
StreamPlainLines == {StreamLine(s, k) : s \in {"stdout", "stderr"}, k \in 1..MaxLines}
StreamTextLines == StreamPlainLines \cup {LineProgress, LineProgressErr}

\* String::from_utf8 inside BufRead::lines
IsUtf8(line) == \A i \in 1..Len(line) : line[i] # INVALID

\* the parser's answer for each line of the model, computed once
Parsed == [l \in TextLines \cup StreamTextLines \cup ParserInputs |-> parse_ytdlp_progress(l)]

Streams == {"stdout", "stderr"}
ExitCodes == {0, 1, 2}
NoStatus == -1

\* status.success()
success(status) == status = 0

LABEL_DOWNLOADING == <<"Downloading audio">>

(***************************************************************************)
(* State.                                                                  *)
(***************************************************************************)
VARIABLES
    rpc,          \* run_ytdlp_with_progress: where the runner is
    result,       \* what the runner returned: [kind, status]
    status,       \* the runner's local `status` (NoStatus before wait returns)
    err_logs,     \* the runner's local `err_logs`
    child,        \* "unspawned" | "running" | "exited"
    wants,        \* the child's next call: a write to "stdout" or "stderr", or "exit"
    pipe,         \* per stream: the lines in the OS pipe
    wopen,        \* per stream: the child's write end is open
    ropen,        \* per stream: the parent's read end is open
    tpc,          \* per stream: where the tailer thread is
    tline,        \* per stream: the tailer's local `line`
    joined,       \* per stream: the runner joined the tailer
    lock,         \* the Mutex: "free" or the stream of the tailer holding it
    logs_buffer,  \* [alloc, dq]: the Arc<Mutex<VecDeque>>
    pb,           \* dl_bar (pb, pb_out, pb_err are clones of one bar): [len, pos, msg, cleared]
    logs,         \* logs_bars: the message of each of the five bars
    logs_cleared, \* finish_and_clear was called on the log bars
    ds,           \* download_and_split, around its call of the runner
    stderr_out,   \* what the process wrote to its own stderr
    appended,     \* history: every line pushed to the buffer, in push order
    written,      \* history: [n, plain, bad]: the child's write calls, plain and non-UTF-8 lines
    ppc,          \* a tailer's loop on its own: where it is
    pline,        \* a tailer's loop on its own: the local `line`
    preading,     \* a tailer's loop on its own: what parse_ytdlp_progress(&line) returned
    pcount,       \* a tailer's loop on its own: the lines it has taken
    mpc,          \* main, batch mode: where it is
    urls,         \* main: the lines of the input file that name URLs
    fidx,         \* main: how many of `urls` the filter loop has taken
    valid_urls,   \* main: the https:// lines
    vidx,         \* main: how many of `valid_urls` the download loop has taken
    url,          \* download_and_split: its argument
    overall,      \* main: the batch's bar, [len, pos, msg]
    out_lines,    \* what overall.println wrote: [kind, url] per line
    attempted,    \* history: the URLs download_and_split was called with, in call order
    main_result,  \* what main returned
    keep,         \* cli.keep
    dest,         \* cli.dest.is_some()
    file,         \* the combined audio file cli.output: "absent" | "present" | "deleted"
    json_spinner, \* download_and_split: "none" | "ticking" | "cleared"
    chapters,     \* download_and_split: the extracted chapters, [start_time, end_time] each
    index,        \* download_and_split: the split loop's position
    split_bar,    \* download_and_split: [len, pos, cleared]
    split_log     \* history: [index, what] per chapter the loop took, what: "skip" | "ok" | "fail"

vars == <<rpc, result, status, err_logs, child, wants, pipe, wopen, ropen,
          tpc, tline, joined, lock, logs_buffer, pb, logs, logs_cleared, ds, stderr_out,
          appended, written, ppc, pline, preading, pcount,
          mpc, urls, fidx, valid_urls, vidx, url, overall, out_lines, attempted, main_result,
          keep, dest, file, json_spinner, chapters, index, split_bar, split_log>>

runnerVars == <<rpc, result, status, err_logs, joined>>
childVars == <<child, wants, pipe, wopen, written>>
sinkVars == <<pb, logs, logs_cleared>>
callerVars == <<ds, stderr_out>>
bufferVars == <<lock, logs_buffer, appended>>
parserVars == <<ppc, pline, preading, pcount>>
mainVars == <<mpc, urls, fidx, valid_urls, vidx, url, overall, out_lines, attempted, main_result>>
cliVars == <<keep, dest>>
splitVars == <<file, json_spinner, chapters, index, split_bar, split_log>>
batchVars == <<mainVars, cliVars, splitVars>>

\* main is not in batch mode, and download_and_split has not passed the download
BatchIdle ==
    /\ mpc = "single"
    /\ urls = <<>>
    /\ fidx = 0
    /\ valid_urls = <<>>
    /\ vidx = 0
    /\ url = <<>>
    /\ overall = [len |-> 0, pos |-> 0, msg |-> <<>>]
    /\ out_lines = <<>>
    /\ attempted = <<>>
    /\ main_result = "none"
    /\ keep = FALSE
    /\ dest = FALSE
    /\ file = "absent"
    /\ json_spinner = "none"
    /\ chapters = <<>>
    /\ index = 0
    /\ split_bar = [len |-> 0, pos |-> 0, cleared |-> FALSE]
    /\ split_log = <<>>

NoResult == [kind |-> "none", status |-> NoStatus]

\* let pb_out = pb.clone(); let pb_err = pb.clone(); (552, 594): a clone of a
\* ProgressBar is a handle on the same bar
pb_out == pb
pb_err == pb

\* state when download_and_split reaches line 165: dl_bar and five empty log bars exist
Init ==
    /\ rpc = "spawn"
    /\ result = NoResult
    /\ status = NoStatus
    /\ err_logs = <<>>
    /\ child = "unspawned"
    /\ wants = "exit"
    /\ pipe = [s \in Streams |-> <<>>]
    /\ wopen = [s \in Streams |-> FALSE]
    /\ ropen = [s \in Streams |-> FALSE]
    /\ tpc = [s \in Streams |-> "unstarted"]
    /\ tline = [s \in Streams |-> <<>>]
    /\ joined = [s \in Streams |-> FALSE]
    /\ lock = "free"
    /\ logs_buffer = [alloc |-> FALSE, dq |-> <<>>]
    /\ pb = [len |-> PermilleMax, pos |-> 0, msg |-> LABEL_DOWNLOADING, cleared |-> FALSE]
    /\ logs = [i \in 1..NumLogBars |-> <<>>]
    /\ logs_cleared = FALSE
    /\ ds = "running"
    /\ stderr_out = <<>>
    /\ appended = <<>>
    /\ written = [n |-> 0, plain |-> 0, bad |-> 0]
    /\ ppc = "idle"
    /\ pline = <<>>
    /\ preading = None
    /\ pcount = 0
    /\ BatchIdle


(***************************************************************************)
(* The child process: it writes lines, each to either stream, blocking     *)
(* while that pipe is full; `wants` is what it does next: a write to one   *)
(* stream, which it is committed to (write(2) blocks), or its exit.        *)
(***************************************************************************)
IsPlain(line) == IsUtf8(line) /\ ~Parsed[line].some

CountWrite(line) ==
    [written EXCEPT !.n = @ + 1,
                    !.plain = @ + (IF IsPlain(line) THEN 1 ELSE 0),
                    !.bad = @ + (IF IsUtf8(line) THEN 0 ELSE 1)]

\* what a child that has made n write calls may do next
Continues(n) == IF n < MaxLines THEN Streams \cup {"exit"} ELSE {"exit"}

\* write(2) into a pipe with room whose read end is open
ChildWrite(s, line) ==
    /\ child = "running"
    /\ wants = s
    /\ ropen[s]
    /\ Len(pipe[s]) < PipeCap
    /\ pipe' = [pipe EXCEPT ![s] = Append(@, line)]
    /\ written' = CountWrite(line)
    /\ wants' \in Continues(written.n + 1)
    /\ UNCHANGED <<child, wopen, ropen>>
    /\ UNCHANGED <<runnerVars, tpc, tline, bufferVars, sinkVars, callerVars>>
    /\ UNCHANGED <<parserVars, batchVars>>

\* write(2) into a pipe whose read end is closed: it fails (EPIPE) and the line is
\* lost; the child carries on, or gives up and exits
ChildWriteBroken(s) ==
    /\ child = "running"
    /\ wants = s
    /\ ~ropen[s]
    /\ written' = [written EXCEPT !.n = @ + 1]
    /\ wants' \in Continues(written.n + 1)
    /\ UNCHANGED <<child, pipe, wopen, ropen>>
    /\ UNCHANGED <<runnerVars, tpc, tline, bufferVars, sinkVars, callerVars>>
    /\ UNCHANGED <<parserVars, batchVars>>

\* the child exits once it has written all it had to; its write ends close.  Its
\* exit status is drawn where it is first read, in WaitOk
ChildExit ==
    /\ child = "running"
    /\ wants = "exit"
    /\ child' = "exited"
    /\ wopen' = [t \in Streams |-> FALSE]
    /\ UNCHANGED <<wants, pipe, written, ropen>>
    /\ UNCHANGED <<runnerVars, tpc, tline, bufferVars, sinkVars, callerVars>>
    /\ UNCHANGED <<parserVars, batchVars>>

(***************************************************************************)
(* run_ytdlp_with_progress, the runner's own control flow (538-647).       *)
(***************************************************************************)
\* mutant: the buffer is created before the child is spawned
SpawnFail_BufferFirst ==
    /\ rpc = "spawn"
    /\ result' = [kind |-> "spawn_error", status |-> NoStatus]
    /\ rpc' = "returned"
    /\ logs_buffer' = [alloc |-> TRUE, dq |-> <<>>]
    /\ UNCHANGED <<status, err_logs, joined>>
    /\ UNCHANGED <<childVars, ropen, tpc, tline, lock, appended, sinkVars, callerVars>>
    /\ UNCHANGED <<parserVars, batchVars>>

\* cmd.spawn() fails: `?` returns the error (544)
SpawnFail ==
    /\ rpc = "spawn"
    /\ result' = [kind |-> "spawn_error", status |-> NoStatus]
    /\ rpc' = "returned"
    /\ UNCHANGED <<status, err_logs, joined>>
    /\ UNCHANGED <<childVars, ropen, tpc, tline, bufferVars, sinkVars, callerVars>>
    /\ UNCHANGED <<parserVars, batchVars>>

\* cmd.spawn() succeeds (543-547): the child runs, both pipes exist
SpawnOk ==
    /\ rpc = "spawn"
    /\ child' = "running"
    /\ wants' \in Continues(0)
    /\ wopen' = [s \in Streams |-> TRUE]
    /\ ropen' = [s \in Streams |-> TRUE]
    /\ rpc' = "start_out"
    /\ UNCHANGED <<result, status, err_logs, joined>>
    /\ UNCHANGED <<pipe, written>>
    /\ UNCHANGED <<tpc, tline, bufferVars, sinkVars, callerVars>>
    /\ UNCHANGED <<parserVars, batchVars>>

\* the buffer is created and the stdout tailer is spawned (551-555)
StartOut ==
    /\ rpc = "start_out"
    /\ logs_buffer' = [alloc |-> TRUE, dq |-> <<>>]
    /\ tpc' = [tpc EXCEPT !["stdout"] = "read"]
    /\ rpc' = "start_err"
    /\ UNCHANGED <<result, status, err_logs, joined>>
    /\ UNCHANGED <<childVars, ropen, tline, lock, appended, sinkVars, callerVars>>
    /\ UNCHANGED <<parserVars, batchVars>>

\* mutant: the runner waits for the child's exit before it starts the stderr tailer
StartErr_AfterExit ==
    /\ rpc = "start_err"
    /\ child = "exited"
    /\ tpc' = [tpc EXCEPT !["stderr"] = "read"]
    /\ rpc' = "wait"
    /\ UNCHANGED <<result, status, err_logs, joined>>
    /\ UNCHANGED <<childVars, ropen, tline, bufferVars, sinkVars, callerVars>>
    /\ UNCHANGED <<parserVars, batchVars>>

\* the stderr tailer is spawned (594-597)
StartErr ==
    /\ rpc = "start_err"
    /\ tpc' = [tpc EXCEPT !["stderr"] = "read"]
    /\ rpc' = "wait"
    /\ UNCHANGED <<result, status, err_logs, joined>>
    /\ UNCHANGED <<childVars, ropen, tline, bufferVars, sinkVars, callerVars>>
    /\ UNCHANGED <<parserVars, batchVars>>

\* child.wait() returns the exit status of the child that exited (636)
WaitOk(c) ==
    /\ rpc = "wait"
    /\ child = "exited"
    /\ status' = c
    /\ rpc' = "join_out"
    /\ UNCHANGED <<result, err_logs, joined>>
    /\ UNCHANGED <<childVars, ropen, tpc, tline, bufferVars, sinkVars, callerVars>>
    /\ UNCHANGED <<parserVars, batchVars>>

\* child.wait() returns Err: `?` returns it at once (636).  waitpid fails (ECHILD)
\* only once the child has terminated, its status taken elsewhere or discarded
WaitErr ==
    /\ rpc = "wait"
    /\ child = "exited"
    /\ result' = [kind |-> "wait_error", status |-> NoStatus]
    /\ rpc' = "returned"
    /\ UNCHANGED <<status, err_logs, joined>>
    /\ UNCHANGED <<childVars, ropen, tpc, tline, bufferVars, sinkVars, callerVars>>
    /\ UNCHANGED <<parserVars, batchVars>>

\* out_handle.join() (637)
JoinOut ==
    /\ rpc = "join_out"
    /\ tpc["stdout"] = "done"
    /\ joined' = [joined EXCEPT !["stdout"] = TRUE]
    /\ rpc' = "join_err"
    /\ UNCHANGED <<result, status, err_logs>>
    /\ UNCHANGED <<childVars, ropen, tpc, tline, bufferVars, sinkVars, callerVars>>
    /\ UNCHANGED <<parserVars, batchVars>>

\* err_handle.join().unwrap_or_default() (638): the closure's value is
\* Vec::<String>::new() (633)
JoinErr ==
    /\ rpc = "join_err"
    /\ tpc["stderr"] = "done"
    /\ joined' = [joined EXCEPT !["stderr"] = TRUE]
    /\ err_logs' = <<>>
    /\ rpc' = "finish"
    /\ UNCHANGED <<result, status>>
    /\ UNCHANGED <<childVars, ropen, tpc, tline, bufferVars, sinkVars, callerVars>>
    /\ UNCHANGED <<parserVars, batchVars>>

\* mutant: the exit status is ignored
ResultOf_Swallow(st) == [kind |-> "ok", status |-> st]

\* the result for an exit status (639-646)
ResultOf(st) ==
    IF success(st) THEN [kind |-> "ok", status |-> st]
    ELSE [kind |-> "child_failure", status |-> st]

\* mutant: a failed download is started over
Finish_Retry ==
    /\ rpc = "finish"
    /\ IF success(status)
       THEN /\ result' = ResultOf(status)
            /\ rpc' = "returned"
            /\ UNCHANGED child
       ELSE /\ result' = result
            /\ rpc' = "spawn"
            /\ child' = "unspawned"
    /\ UNCHANGED <<status, err_logs, joined, ds, stderr_out>>
    /\ UNCHANGED <<wants, pipe, wopen, written, ropen, tpc, tline, bufferVars, sinkVars>>
    /\ UNCHANGED <<parserVars, batchVars>>

\* if status.success() { Ok } else { eprintln each of err_logs; bail } (639-646)
Finish ==
    /\ rpc = "finish"
    /\ result' = ResultOf(status)
    /\ stderr_out' = IF success(status) THEN stderr_out ELSE stderr_out \o err_logs
    /\ rpc' = "returned"
    /\ UNCHANGED <<status, err_logs, joined, ds>>
    /\ UNCHANGED <<childVars, ropen, tpc, tline, bufferVars, sinkVars>>
    /\ UNCHANGED <<parserVars, batchVars>>


(***************************************************************************)
(* The output tailers (555-592 for stdout, 597-634 for stderr): the two    *)
(* closures are the same code over their own stream.                       *)
(***************************************************************************)
\* the message of a progress reading (561-569, 603-611)
ProgressMessage(permille, speed) ==
    LET percent_int == permille \div 10
        percent_frac == permille % 10
        fixed_spd == IF speed = <<>> THEN PadLeft(<<>>, SpeedWidth)
                     ELSE PadLeft(speed[1], SpeedWidth)
        right == <<" ", "|", " ">> \o fixed_spd
    IN  DecStr(percent_int) \o <<".">> \o DecStr(percent_frac) \o <<"%", ESC_GRAY>>
        \o right \o <<ESC_RESET>>

\* mutant: every line is logged, whatever the parser says
Route_LogAll(line) == "log"

\* if let Some(..) = parse_ytdlp_progress(&line) { .. } else { .. } (558, 570):
\* a line with a reading goes to the bar, any other to the log buffer
Route(line) == IF Parsed[line].some THEN "progress" ELSE "log"

\* what a text line does to the download bar (558-572): a progress reading sets
\* length, position and message, any other line sets the label
Routed(bar, line) ==
    LET r == Parsed[line] IN
    IF Route(line) = "progress"
    THEN [bar EXCEPT !.len = PermilleMax,
                     !.pos = Min(r.permille, PermilleMax),
                     !.msg = ProgressMessage(r.permille, r.speed)]
    ELSE [bar EXCEPT !.msg = LABEL_DOWNLOADING]

\* one turn of `for line in reader.lines().map_while(Result::ok)` up to the lock
\* (557-572): the next line is read and routed; the loop ends at end-of-file and
\* at the first Err (a line that is not UTF-8), and the reader is dropped
TailerRead(s) ==
    /\ tpc[s] = "read"
    /\ \/ /\ pipe[s] # <<>>
          /\ IsUtf8(Head(pipe[s]))
          /\ pipe' = [pipe EXCEPT ![s] = Tail(@)]
          /\ pb' = Routed(pb, Head(pipe[s]))
          /\ IF Route(Head(pipe[s])) = "progress"
             THEN UNCHANGED <<tpc, tline>>
             ELSE /\ tline' = [tline EXCEPT ![s] = Head(pipe[s])]
                  /\ tpc' = [tpc EXCEPT ![s] = "lock"]
          /\ UNCHANGED ropen
       \/ /\ pipe[s] # <<>>
          /\ ~IsUtf8(Head(pipe[s]))
          /\ pipe' = [pipe EXCEPT ![s] = <<>>]
          /\ ropen' = [ropen EXCEPT ![s] = FALSE]
          /\ tpc' = [tpc EXCEPT ![s] = "done"]
          /\ UNCHANGED <<tline, pb>>
       \/ /\ pipe[s] = <<>>
          /\ ~wopen[s]
          /\ ropen' = [ropen EXCEPT ![s] = FALSE]
          /\ tpc' = [tpc EXCEPT ![s] = "done"]
          /\ UNCHANGED <<pipe, tline, pb>>
    /\ UNCHANGED <<child, wants, wopen, written>>
    /\ UNCHANGED <<logs, logs_cleared>>
    /\ UNCHANGED <<runnerVars, bufferVars, callerVars>>
    /\ UNCHANGED <<parserVars, batchVars>>

\* mutant: the line is pushed at the front (push_front)
PushLine_Front(dq, line) ==
    <<line>> \o (IF Len(dq) = LogCap THEN SubSeq(dq, 1, Len(dq) - 1) ELSE dq)

\* mutant: the eviction test is off by one (dq.len() > 5)
PushLine_OffByOne(dq, line) == Append(IF Len(dq) > LogCap THEN Tail(dq) ELSE dq, line)

\* mutant: the newest line is evicted (pop_back) instead of the oldest
PushLine_PopBack(dq, line) ==
    Append(IF Len(dq) = LogCap THEN SubSeq(dq, 1, Len(dq) - 1) ELSE dq, line)

\* if dq.len() == 5 { dq.pop_front(); } dq.push_back(line) (574-577)
PushLine(dq, line) == Append(IF Len(dq) = LogCap THEN Tail(dq) ELSE dq, line)

\* mutant: the line is pushed without the lock being waited for
TailerAppend_NoLock(s) ==
    /\ tpc[s] = "lock"
    /\ lock' = s
    /\ logs_buffer' = [logs_buffer EXCEPT !.dq = PushLine(@, tline[s])]
    /\ appended' = Append(appended, tline[s])
    /\ tline' = [tline EXCEPT ![s] = <<>>]
    /\ tpc' = [tpc EXCEPT ![s] = "refresh"]
    /\ UNCHANGED <<runnerVars, childVars, ropen, sinkVars, callerVars>>
    /\ UNCHANGED <<parserVars, batchVars>>

\* logs_buf.lock() succeeds once the mutex is free, and the line is pushed (573-577)
TailerAppend(s) ==
    /\ tpc[s] = "lock"
    /\ lock = "free"
    /\ lock' = s
    /\ logs_buffer' = [logs_buffer EXCEPT !.dq = PushLine(@, tline[s])]
    /\ appended' = Append(appended, tline[s])
    /\ tline' = [tline EXCEPT ![s] = <<>>]
    /\ tpc' = [tpc EXCEPT ![s] = "refresh"]
    /\ UNCHANGED <<runnerVars, childVars, ropen, sinkVars, callerVars>>
    /\ UNCHANGED <<parserVars, batchVars>>

\* the last five lines of the snapshot (579-581)
Snapshot(dq) ==
    LET start == IF Len(dq) > NumLogBars THEN Len(dq) - NumLogBars ELSE 0
    IN  SubSeq(dq, start + 1, Len(dq))

\* mutant: the bars show the buffer as it was before the push
Refreshed_BeforePush(dq) ==
    LET slice == SubSeq(dq, 1, Len(dq) - 1) IN
    [i \in 1..NumLogBars |->
        IF i <= Len(slice) THEN <<ESC_GRAY>> \o slice[i] \o <<ESC_RESET>> ELSE <<>>]

\* every bar is cleared, then bar i shows line i of the snapshot (583-588)
Refreshed(dq) ==
    LET slice == Snapshot(dq) IN
    [i \in 1..NumLogBars |->
        IF i <= Len(slice) THEN <<ESC_GRAY>> \o slice[i] \o <<ESC_RESET>> ELSE <<>>]

\* the log bars are rewritten while the guard `dq` is alive; it goes out of scope
\* after the last set_message (579-589)
TailerRefresh(s) ==
    /\ tpc[s] = "refresh"
    /\ logs' = Refreshed(logs_buffer.dq)
    /\ lock' = "free"
    /\ tpc' = [tpc EXCEPT ![s] = "read"]
    /\ UNCHANGED <<pb, logs_cleared, tline, logs_buffer, appended>>
    /\ UNCHANGED <<runnerVars, childVars, ropen, callerVars>>
    /\ UNCHANGED <<parserVars, batchVars>>

(***************************************************************************)
(* The caller: download_and_split around line 165, and main's report of    *)
(* an error (114-118, 126).                                                *)
(***************************************************************************)
\* run_ytdlp_with_progress(..).context("yt-dlp failed")?; then finish_and_clear on
\* dl_bar and on every log bar (165-169)
AfterRun ==
    /\ rpc = "returned"
    /\ ds = "running"
    /\ IF result.kind = "ok"
       THEN /\ pb' = [pb EXCEPT !.cleared = TRUE]
            /\ logs_cleared' = TRUE
            /\ ds' = "metadata"
       ELSE /\ ds' = "failed"
            /\ UNCHANGED <<pb, logs_cleared>>
    /\ UNCHANGED <<logs, stderr_out>>
    /\ UNCHANGED <<runnerVars, childVars, ropen, tpc, tline, bufferVars>>
    /\ UNCHANGED <<parserVars, batchVars>>

\* the text of the runner's error
ErrorText(res) ==
    IF res.kind = "child_failure"
    THEN <<"yt-dlp exited with status: ">> \o DecStr(res.status)
    ELSE IF res.kind = "spawn_error" THEN <<"Failed to start yt-dlp">>
    ELSE <<"Failed to wait for yt-dlp">>

\* main surfaces the error, once: the context and its cause
Report ==
    /\ ds = "failed"
    /\ stderr_out' = stderr_out \o << <<"yt-dlp failed">>, ErrorText(result) >>
    /\ ds' = "reported"
    /\ UNCHANGED <<runnerVars, childVars, ropen, tpc, tline, bufferVars, sinkVars>>
    /\ UNCHANGED <<parserVars, batchVars>>

(***************************************************************************)
(* A tailer's loop (557-591) followed on its own, one line at a time, for  *)
(* any text its stream may carry: the line is taken, parsed, and routed.   *)
(***************************************************************************)
\* the stdout tailer has just been started: the child runs, the buffer is empty
ParserInit ==
    /\ rpc = "start_err"
    /\ result = NoResult
    /\ status = NoStatus
    /\ err_logs = <<>>
    /\ child = "running"
    /\ wants = "stdout"
    /\ pipe = [s \in Streams |-> <<>>]
    /\ wopen = [s \in Streams |-> TRUE]
    /\ ropen = [s \in Streams |-> TRUE]
    /\ tpc = [s \in Streams |-> IF s = "stdout" THEN "read" ELSE "unstarted"]
    /\ tline = [s \in Streams |-> <<>>]
    /\ joined = [s \in Streams |-> FALSE]
    /\ lock = "free"
    /\ logs_buffer = [alloc |-> TRUE, dq |-> <<>>]
    /\ pb = [len |-> PermilleMax, pos |-> 0, msg |-> LABEL_DOWNLOADING, cleared |-> FALSE]
    /\ logs = [i \in 1..NumLogBars |-> <<>>]
    /\ logs_cleared = FALSE
    /\ ds = "running"
    /\ stderr_out = <<>>
    /\ appended = <<>>
    /\ written = [n |-> 0, plain |-> 0, bad |-> 0]
    /\ ppc = "next"
    /\ pline = <<>>
    /\ preading = None
    /\ pcount = 0
    /\ BatchIdle

\* reader.lines() yields the next line (557)
TakeLine(line) ==
    /\ ppc = "next"
    /\ pcount < MaxParsed
    /\ pline' = line
    /\ pcount' = pcount + 1
    /\ ppc' = "parse"
    /\ UNCHANGED preading
    /\ UNCHANGED <<runnerVars, childVars, ropen, tpc, tline, bufferVars, sinkVars, callerVars>>
    /\ UNCHANGED batchVars

\* reader.lines() ends: end-of-file, or a line that is no UTF-8 (557)
EndLines ==
    /\ ppc = "next"
    /\ ppc' = "done"
    /\ UNCHANGED <<pline, preading, pcount>>
    /\ UNCHANGED <<runnerVars, childVars, ropen, tpc, tline, bufferVars, sinkVars, callerVars>>
    /\ UNCHANGED batchVars

\* parse_ytdlp_progress(&line) returns (558)
ParseLine ==
    /\ ppc = "parse"
    /\ preading' = parse_ytdlp_progress(pline)
    /\ ppc' = "route"
    /\ UNCHANGED <<pline, pcount>>
    /\ UNCHANGED <<runnerVars, childVars, ropen, tpc, tline, bufferVars, sinkVars, callerVars>>
    /\ UNCHANGED batchVars

\* the two branches of the if-let (558-590): a reading goes to the download bar; any
\* other line sets the label, is pushed to the buffer and shown in the log bars.
\* `line` ends with the turn of the loop
RouteLine ==
    /\ ppc = "route"
    /\ pb' = Routed(pb, pline)
    /\ IF Route(pline) = "log"
       THEN /\ logs_buffer' = [logs_buffer EXCEPT !.dq = PushLine(@, pline)]
            /\ appended' = Append(appended, pline)
            /\ logs' = Refreshed(PushLine(logs_buffer.dq, pline))
       ELSE UNCHANGED <<logs_buffer, appended, logs>>
    /\ pline' = <<>>
    /\ preading' = None
    /\ ppc' = "next"
    /\ UNCHANGED <<pcount, lock, logs_cleared>>
    /\ UNCHANGED <<runnerVars, childVars, ropen, tpc, tline, callerVars>>
    /\ UNCHANGED batchVars

ParserNext == (\E line \in ParserInputs : TakeLine(line)) \/ EndLines \/ ParseLine \/ RouteLine

ParserSpec == ParserInit /\ [][ParserNext]_vars

(***************************************************************************)
(* main in batch mode (93-123) and download_and_split (131-253).  The      *)
(* runner is taken here by what it returns; its own steps are those above. *)
(* An f64 is [k, v]: a number of v tenths of a second, f64::MAX with the    *)
(* sign v, or an infinity with the sign v.                                 *)
(***************************************************************************)
HTTPS == <<"h", "t", "t", "p", "s", ":", "/", "/">>
URL_A == <<"h", "t", "t", "p", "s", ":", "/", "/", "a">>
URL_B == <<"h", "t", "t", "p", "s", ":", "/", "/", "b">>
URL_HTTP == <<"h", "t", "t", "p", ":", "/", "/", "c">>
UrlLines == {URL_A, URL_B, URL_HTTP}

\* the lists of at most n lines over a set
RECURSIVE ListsUpTo(_, _)
ListsUpTo(S, n) ==
    IF n = 0 THEN {<<>>}
    ELSE LET shorter == ListsUpTo(S, n - 1)
         IN  shorter \cup {Append(l, x) : l \in {m \in shorter : Len(m) = n - 1}, x \in S}

Num(v) == [k |-> "num", v |-> v]
F64_MAX == [k |-> "max", v |-> 1]
F64_MIN == [k |-> "max", v |-> -1]
\* 1.0, in tenths
OneSecond == 10

\* f64: a - b, for the finite a and b that serde_json yields; the difference of
\* f64::MAX and f64::MIN overflows to an infinity, a number of seconds is lost in
\* the rounding next to f64::MAX
FSub(a, b) ==
    IF a.k = "num" /\ b.k = "num" THEN Num(a.v - b.v)
    ELSE IF a.k = "max" /\ b.k = "num" THEN a
    ELSE IF a.k = "num" /\ b.k = "max" THEN [k |-> "max", v |-> 0 - b.v]
    ELSE IF a.v = b.v THEN Num(0)
    ELSE [k |-> "inf", v |-> a.v]

\* f64::max(a, 0.0)
FMaxZero(a) ==
    IF a.k = "num" THEN Num(IF a.v > 0 THEN a.v ELSE 0)
    ELSE IF a.v > 0 THEN a ELSE Num(0)

\* f64::is_finite
is_finite(a) == a.k # "inf"

\* a < 1.0
LessThanOne(a) == IF a.k = "num" THEN a.v < OneSecond ELSE a.v < 0

\* let duration = (ch.end_time - ch.start_time).max(0.0) (219)
Duration(c) == FMaxZero(FSub(c.end_time, c.start_time))

\* !duration.is_finite() || duration < 1.0 (220)
TooShort(c) == ~is_finite(Duration(c)) \/ LessThanOne(Duration(c))

\* chapters: three seconds, one second sharp, half a second, an end before the
\* start, an end at f64::MAX, and f64::MIN to f64::MAX, whose duration is infinite
CH_LONG == [start_time |-> Num(0), end_time |-> Num(30)]
CH_ONE_SECOND == [start_time |-> Num(10), end_time |-> Num(20)]
CH_HALF_SECOND == [start_time |-> Num(0), end_time |-> Num(5)]
CH_BACKWARDS == [start_time |-> Num(30), end_time |-> Num(10)]
CH_HUGE == [start_time |-> Num(0), end_time |-> F64_MAX]
CH_OVERFLOW == [start_time |-> F64_MIN, end_time |-> F64_MAX]
Chapters == {CH_LONG, CH_ONE_SECOND, CH_HALF_SECOND, CH_BACKWARDS, CH_HUGE, CH_OVERFLOW}

\* the runner's results
RunnerResults == {[kind |-> "ok", status |-> 0], [kind |-> "child_failure", status |-> 1],
                  [kind |-> "spawn_error", status |-> NoStatus],
                  [kind |-> "wait_error", status |-> NoStatus]}


\* line.starts_with("https://") (105)
IsValidUrl(line) == StartsWith(line, HTTPS)

\* main has read the file: `urls` is not empty (88-90), the bar `overall` has its
\* length (94) and its message (100-101)
BatchInit ==
    /\ rpc = "spawn"
    /\ result = NoResult
    /\ status = NoStatus
    /\ err_logs = <<>>
    /\ child = "unspawned"
    /\ wants = "exit"
    /\ pipe = [s \in Streams |-> <<>>]
    /\ wopen = [s \in Streams |-> FALSE]
    /\ ropen = [s \in Streams |-> FALSE]
    /\ tpc = [s \in Streams |-> "unstarted"]
    /\ tline = [s \in Streams |-> <<>>]
    /\ joined = [s \in Streams |-> FALSE]
    /\ lock = "free"
    /\ logs_buffer = [alloc |-> FALSE, dq |-> <<>>]
    /\ pb = [len |-> PermilleMax, pos |-> 0, msg |-> LABEL_DOWNLOADING, cleared |-> FALSE]
    /\ logs = [i \in 1..NumLogBars |-> <<>>]
    /\ logs_cleared = FALSE
    /\ ds = "idle"
    /\ stderr_out = <<>>
    /\ appended = <<>>
    /\ written = [n |-> 0, plain |-> 0, bad |-> 0]
    /\ ppc = "idle"
    /\ pline = <<>>
    /\ preading = None
    /\ pcount = 0
    /\ mpc = "filter"
    /\ urls \in ListsUpTo(UrlLines, MaxUrls) \ {<<>>}
    /\ fidx = 0
    /\ valid_urls = <<>>
    /\ vidx = 0
    /\ url = <<>>
    /\ overall = [len |-> Len(urls), pos |-> 0, msg |-> <<"Processing URLs">>]
    /\ out_lines = <<>>
    /\ attempted = <<>>
    /\ main_result = "none"
    /\ keep \in BOOLEAN
    /\ dest \in BOOLEAN
    /\ file = "absent"
    /\ json_spinner = "none"
    /\ chapters = <<>>
    /\ index = 0
    /\ split_bar = [len |-> 0, pos |-> 0, cleared |-> FALSE]
    /\ split_log = <<>>

programVars == <<runnerVars, childVars, ropen, tpc, tline, bufferVars, sinkVars, callerVars>>

\* one turn of `for line in urls` (104-111); after the last one the download loop
\* begins
FilterUrl ==
    /\ mpc = "filter"
    /\ fidx < Len(urls)
    /\ LET line == urls[fidx + 1] IN
       IF IsValidUrl(line)
       THEN /\ valid_urls' = Append(valid_urls, line)
            /\ UNCHANGED <<overall, out_lines>>
       ELSE /\ out_lines' = Append(out_lines, [kind |-> "skipped", url |-> line])
            /\ overall' = [overall EXCEPT !.pos = @ + 1]
            /\ UNCHANGED valid_urls
    /\ fidx' = fidx + 1
    /\ mpc' = IF fidx + 1 = Len(urls) THEN "loop" ELSE "filter"
    /\ UNCHANGED <<urls, vidx, url, attempted, main_result>>
    /\ UNCHANGED <<programVars, parserVars, cliVars, splitVars>>

\* download_and_split is called with the next valid URL (113-114); it makes its
\* download bar and its five log bars (133-151)
CallDownload ==
    /\ mpc = "loop"
    /\ vidx < Len(valid_urls)
    /\ url' = valid_urls[vidx + 1]
    /\ attempted' = Append(attempted, valid_urls[vidx + 1])
    /\ mpc' = "call"
    /\ ds' = "running"
    /\ rpc' = "spawn"
    /\ result' = NoResult
    /\ pb' = [len |-> PermilleMax, pos |-> 0, msg |-> LABEL_DOWNLOADING, cleared |-> FALSE]
    /\ logs' = [i \in 1..NumLogBars |-> <<>>]
    /\ logs_cleared' = FALSE
    /\ json_spinner' = "none"
    /\ chapters' = <<>>
    /\ index' = 0
    /\ split_bar' = [len |-> 0, pos |-> 0, cleared |-> FALSE]
    /\ split_log' = <<>>
    /\ UNCHANGED <<urls, fidx, valid_urls, vidx, overall, out_lines, main_result, file>>
    /\ UNCHANGED <<status, err_logs, joined, childVars, ropen, tpc, tline, bufferVars, stderr_out>>
    /\ UNCHANGED <<parserVars, cliVars>>

\* run_ytdlp_with_progress from its call to its return (538-647), by its result: a
\* download that succeeded has written the combined file
RunYtdlp(res) ==
    /\ ds = "running"
    /\ rpc = "spawn"
    /\ rpc' = "returned"
    /\ result' = res
    /\ file' = IF res.kind = "ok" THEN "present" ELSE file
    /\ UNCHANGED <<json_spinner, chapters, index, split_bar, split_log>>
    /\ UNCHANGED <<status, err_logs, joined, childVars, ropen, tpc, tline, bufferVars, sinkVars,
                   callerVars>>
    /\ UNCHANGED <<parserVars, mainVars, cliVars>>

\* the spinner is started and fetch_metadata_json(url)? returns (172-181)
FetchMetadata(ok) ==
    /\ ds = "metadata"
    /\ IF ok
       THEN /\ json_spinner' = "cleared"
            /\ ds' = "extract"
       ELSE /\ json_spinner' = "ticking"
            /\ ds' = "failed"
    /\ UNCHANGED <<file, chapters, index, split_bar, split_log>>
    /\ UNCHANGED <<runnerVars, childVars, ropen, tpc, tline, bufferVars, sinkVars, stderr_out>>
    /\ UNCHANGED <<parserVars, mainVars, cliVars>>

\* extract_chapters(&metadata)? fails: no `chapters` field (184, 457-459)
ExtractFails ==
    /\ ds = "extract"
    /\ ds' = "failed"
    /\ UNCHANGED <<file, json_spinner, chapters, index, split_bar, split_log>>
    /\ UNCHANGED <<runnerVars, childVars, ropen, tpc, tline, bufferVars, sinkVars, stderr_out>>
    /\ UNCHANGED <<parserVars, mainVars, cliVars>>

\* extract_chapters returns a list; an empty one is an error, else the split bar is
\* made with the list's length (184-196)
ExtractChapters(list) ==
    /\ ds = "extract"
    /\ chapters' = list
    /\ IF list = <<>>
       THEN /\ ds' = "failed"
            /\ UNCHANGED split_bar
       ELSE /\ ds' = "mkdir"
            /\ split_bar' = [len |-> Len(list), pos |-> 0, cleared |-> FALSE]
    /\ UNCHANGED <<file, json_spinner, index, split_log>>
    /\ UNCHANGED <<runnerVars, childVars, ropen, tpc, tline, bufferVars, sinkVars, stderr_out>>
    /\ UNCHANGED <<parserVars, mainVars, cliVars>>

\* if let Some(dest_dir) = cli.dest { fs::create_dir_all(dest_dir)? } (198-200)
CreateDest(ok) ==
    /\ ds = "mkdir"
    /\ IF dest /\ ~ok
       THEN /\ ds' = "failed"
       ELSE /\ ds' = "split"
    /\ UNCHANGED <<file, json_spinner, chapters, index, split_bar, split_log>>
    /\ UNCHANGED <<runnerVars, childVars, ropen, tpc, tline, bufferVars, sinkVars, stderr_out>>
    /\ UNCHANGED <<parserVars, mainVars, cliVars>>

\* mutant: a skipped chapter is not counted
SkipChapter_Uncounted ==
    /\ ds = "split"
    /\ index < Len(chapters)
    /\ TooShort(chapters[index + 1])
    /\ split_log' = Append(split_log, [index |-> index, what |-> "skip"])
    /\ index' = index + 1
    /\ UNCHANGED <<ds, file, json_spinner, chapters, split_bar>>
    /\ UNCHANGED <<runnerVars, childVars, ropen, tpc, tline, bufferVars, sinkVars, stderr_out>>
    /\ UNCHANGED <<parserVars, mainVars, cliVars>>

\* a turn of the split loop for a chapter that is too short: println, inc(1), continue
\* (218-227)
SkipChapter ==
    /\ ds = "split"
    /\ index < Len(chapters)
    /\ TooShort(chapters[index + 1])
    /\ split_log' = Append(split_log, [index |-> index, what |-> "skip"])
    /\ split_bar' = [split_bar EXCEPT !.pos = @ + 1]
    /\ index' = index + 1
    /\ UNCHANGED <<ds, file, json_spinner, chapters>>
    /\ UNCHANGED <<runnerVars, childVars, ropen, tpc, tline, bufferVars, sinkVars, stderr_out>>
    /\ UNCHANGED <<parserVars, mainVars, cliVars>>

\* mutant: the splitter's error is dropped and the loop goes on
RunSplitter_IgnoreError(ok) ==
    /\ ds = "split"
    /\ index < Len(chapters)
    /\ ~TooShort(chapters[index + 1])
    /\ split_log' = Append(split_log, [index |-> index, what |-> IF ok THEN "ok" ELSE "fail"])
    /\ split_bar' = [split_bar EXCEPT !.pos = @ + 1]
    /\ index' = index + 1
    /\ UNCHANGED ds
    /\ UNCHANGED <<file, json_spinner, chapters>>
    /\ UNCHANGED <<runnerVars, childVars, ropen, tpc, tline, bufferVars, sinkVars, stderr_out>>
    /\ UNCHANGED <<parserVars, mainVars, cliVars>>

\* a turn of the split loop that runs ffmpeg: run_command(..)? and inc(1) (228-245,
\* 494-501)
RunSplitter(ok) ==
    /\ ds = "split"
    /\ index < Len(chapters)
    /\ ~TooShort(chapters[index + 1])
    /\ split_log' = Append(split_log, [index |-> index, what |-> IF ok THEN "ok" ELSE "fail"])
    /\ IF ok
       THEN /\ split_bar' = [split_bar EXCEPT !.pos = @ + 1]
            /\ index' = index + 1
            /\ UNCHANGED ds
       ELSE /\ ds' = "failed"
            /\ UNCHANGED <<split_bar, index>>
    /\ UNCHANGED <<file, json_spinner, chapters>>
    /\ UNCHANGED <<runnerVars, childVars, ropen, tpc, tline, bufferVars, sinkVars, stderr_out>>
    /\ UNCHANGED <<parserVars, mainVars, cliVars>>

\* after the loop: split_bar.finish_and_clear(); if !cli.keep the file is removed,
\* an error of the removal dropped; Ok(()) (247-252)
FinishSplit(removed) ==
    /\ ds = "split"
    /\ index = Len(chapters)
    /\ split_bar' = [split_bar EXCEPT !.cleared = TRUE]
    /\ file' = IF ~keep /\ removed THEN "deleted" ELSE file
    /\ ds' = "ok"
    /\ UNCHANGED <<json_spinner, chapters, index, split_log>>
    /\ UNCHANGED <<runnerVars, childVars, ropen, tpc, tline, bufferVars, sinkVars, stderr_out>>
    /\ UNCHANGED <<parserVars, mainVars, cliVars>>

\* download_and_split returns: its bars, its chapters and the runner's result go out
\* of scope
DropLocals ==
    /\ rpc' = "spawn"
    /\ result' = NoResult
    /\ pb' = [len |-> PermilleMax, pos |-> 0, msg |-> LABEL_DOWNLOADING, cleared |-> FALSE]
    /\ logs' = [i \in 1..NumLogBars |-> <<>>]
    /\ logs_cleared' = FALSE
    /\ json_spinner' = "none"
    /\ chapters' = <<>>
    /\ index' = 0
    /\ split_bar' = [len |-> 0, pos |-> 0, cleared |-> FALSE]
    /\ split_log' = <<>>

\* mutant: the first failing URL ends the batch (download_and_split(..)?)
NextUrl_AbortOnError ==
    /\ mpc = "call"
    /\ ds \in {"ok", "failed"}
    /\ IF ds = "failed"
       THEN /\ main_result' = "error"
            /\ mpc' = "done"
            /\ UNCHANGED <<overall, vidx>>
       ELSE /\ overall' = [overall EXCEPT !.pos = @ + 1]
            /\ vidx' = vidx + 1
            /\ mpc' = "loop"
            /\ UNCHANGED main_result
    /\ ds' = "idle"
    /\ DropLocals
    /\ UNCHANGED <<urls, fidx, valid_urls, url, attempted, out_lines>>
    /\ UNCHANGED <<status, err_logs, joined, childVars, ropen, tpc, tline, bufferVars, stderr_out>>
    /\ UNCHANGED <<parserVars, cliVars, file>>

\* download_and_split has returned: an error is printed, the bar counts the URL
\* (114-120)
NextUrl ==
    /\ mpc = "call"
    /\ ds \in {"ok", "failed"}
    /\ out_lines' = IF ds = "failed"
                    THEN Append(out_lines, [kind |-> "failed", url |-> url])
                    ELSE out_lines
    /\ overall' = [overall EXCEPT !.pos = @ + 1]
    /\ vidx' = vidx + 1
    /\ mpc' = "loop"
    /\ ds' = "idle"
    /\ DropLocals
    /\ UNCHANGED <<urls, fidx, valid_urls, url, attempted, main_result>>
    /\ UNCHANGED <<status, err_logs, joined, childVars, ropen, tpc, tline, bufferVars, stderr_out>>
    /\ UNCHANGED <<parserVars, cliVars, file>>

\* overall.finish_with_message("All done"); Ok(()) (122-123)
FinishBatch ==
    /\ mpc = "loop"
    /\ vidx = Len(valid_urls)
    /\ overall' = [overall EXCEPT !.msg = <<"All done">>]
    /\ main_result' = "ok"
    /\ mpc' = "done"
    /\ UNCHANGED <<urls, fidx, valid_urls, vidx, url, attempted, out_lines>>
    /\ UNCHANGED <<programVars, parserVars, cliVars, splitVars>>

BatchNext ==
    \/ FilterUrl
    \/ CallDownload
    \/ \E res \in RunnerResults : RunYtdlp(res)
    \/ AfterRun
    \/ \E ok \in BOOLEAN : FetchMetadata(ok)
    \/ ExtractFails
    \/ \E list \in ListsUpTo(Chapters, MaxChapters) : ExtractChapters(list)
    \/ \E ok \in BOOLEAN : CreateDest(ok)
    \/ SkipChapter
    \/ \E ok \in BOOLEAN : RunSplitter(ok)
    \/ \E removed \in BOOLEAN : FinishSplit(removed)
    \/ NextUrl
    \/ FinishBatch

BatchSpec == BatchInit /\ [][BatchNext]_vars

\* every step of main and of download_and_split is a call that returns once the
\* child it waits for has ended
FairBatchSpec == BatchSpec /\ WF_vars(BatchNext)

(***************************************************************************)
(* The specification.                                                      *)
(***************************************************************************)
\* the child's next line: its next numbered log line, a progress line, or bytes
\* that are no text
NextLines == {PlainLine(written.plain + 1), LineProgress, LineBad}

Child ==
    \/ \E s \in Streams, line \in NextLines : ChildWrite(s, line)
    \/ \E s \in Streams : ChildWriteBroken(s)
    \/ ChildExit

Runner == SpawnFail \/ SpawnOk \/ StartOut \/ StartErr
          \/ (\E c \in ExitCodes : WaitOk(c)) \/ WaitErr
          \/ JoinOut \/ JoinErr \/ Finish

Tailer(s) == TailerRead(s) \/ TailerAppend(s) \/ TailerRefresh(s)

Caller == AfterRun \/ Report

Next == Child \/ Runner \/ (\E s \in Streams : Tailer(s)) \/ Caller

Spec == Init /\ [][Next]_vars


\* the child's next line on stream s, worded by its stream
StreamNextLines(s) == {StreamLine(s, written.plain + 1), StreamProgress(s), LineBad}

StreamChild ==
    \/ \E s \in Streams : \E line \in StreamNextLines(s) : ChildWrite(s, line)
    \/ \E s \in Streams : ChildWriteBroken(s)
    \/ ChildExit

StreamNext == StreamChild \/ Runner \/ (\E s \in Streams : Tailer(s)) \/ Caller

\* the program with a child whose lines tell their stream
StreamSpec == Init /\ [][StreamNext]_vars

\* the threads and the child are scheduled by the OS: each keeps taking steps
\* while it can
FairSpec ==
    /\ Spec
    /\ WF_vars(Child)
    /\ WF_vars(Runner)
    /\ \A s \in Streams : WF_vars(Tailer(s))
    /\ WF_vars(Caller)

(***************************************************************************)
(* Properties.                                                             *)
(***************************************************************************)
\* the last n elements of a sequence (all of it when it is shorter)
LastN(seq, n) == SubSeq(seq, Len(seq) - Min(Len(seq), n) + 1, Len(seq))

\* how often x occurs in a sequence
Occurrences(x, seq) == Cardinality({i \in 1..Len(seq) : seq[i] = x})

Returned == rpc = "returned"

\* C1: in every reachable state, under any interleaving of the two tailers, the
\* recent-lines buffer holds at most 5 lines.
C1_BufferAtMostFive == Len(logs_buffer.dq) <= 5

\* C1 witness: the buffer is full after a push that had to evict, while the other
\* tailer is alive too.
C1_Witness ==
    /\ Len(logs_buffer.dq) = 5
    /\ Len(appended) > 5
    /\ \A s \in Streams : tpc[s] \in {"read", "lock", "refresh"}

\* C2: after k pushes (by either tailer, in the order they took the lock) the
\* buffer is the last min(k, 5) pushed lines, oldest first; after 7 pushes it is
\* pushes 3..7.
C2_BufferIsLastFivePushed ==
    /\ logs_buffer.dq = LastN(appended, 5)
    /\ Len(appended) = 7 => logs_buffer.dq = SubSeq(appended, 3, 7)

\* C2 witness: seven different lines were pushed and the buffer is pushes 3..7.
C2_Witness ==
    /\ Len(appended) = 7
    /\ Cardinality({appended[i] : i \in 1..7}) = 7
    /\ logs_buffer.dq = <<appended[3], appended[4], appended[5], appended[6], appended[7]>>

\* C3: a line for which the parser yields a reading is never pushed to the buffer;
\* when a child that wrote only progress lines and M plain lines exits 0, the run
\* returns success and the buffer is the last min(M, 5) of the M plain lines.
C3_ProgressNeverBuffered ==
    /\ \A i \in 1..Len(appended) : parse_ytdlp_progress(appended[i]) = None
    /\ \A i \in 1..Len(logs_buffer.dq) : parse_ytdlp_progress(logs_buffer.dq[i]) = None
    /\ (Returned /\ status = 0 /\ written.bad = 0) =>
          /\ result.kind = "ok"
          /\ Len(appended) = written.plain
          /\ {appended[i] : i \in 1..Len(appended)} = {PlainLine(k) : k \in 1..written.plain}
          /\ logs_buffer.dq = LastN(appended, 5)

\* C3 witness: a successful run of a child that wrote a progress line and more
\* than five plain lines.
C3_Witness ==
    /\ Returned
    /\ result.kind = "ok"
    /\ written.bad = 0
    /\ written.plain > 5
    /\ written.n > written.plain

\* C4: the runner reports no result (success, child failure, or an error of the
\* exit-wait) before both tailers have finished and have been joined.
C4_ResultOnlyAfterJoin ==
    (Returned /\ result.kind \in {"ok", "child_failure", "wait_error"}) =>
        \A s \in Streams : tpc[s] = "done" /\ joined[s]

\* C5: the run returns: however the child spreads its lines over bounded pipes,
\* the child is never left blocked on a full pipe.
C5_RunReturns == <>Returned

\* C5 witness: the child has written more than a pipe holds to stderr (the pipe is
\* full and the tailer holds a further line) and has yet another write to stderr
\* to make.
C5_Witness ==
    /\ child = "running"
    /\ wants = "stderr"
    /\ Len(pipe["stderr"]) = PipeCap
    /\ tpc["stderr"] \in {"lock", "refresh"}
    /\ rpc = "wait"

\* C6: the runner returns success exactly when the exit status is success, and for
\* any other exit status a failure that carries that status.
C6_ResultFollowsExitStatus ==
    Returned =>
        /\ (result.kind = "ok") <=> (status = 0)
        /\ status \notin {NoStatus, 0} =>
              result = [kind |-> "child_failure", status |-> status]

\* C6 witness: a child that wrote lines and exited with status 2.
C6_Witness ==
    /\ Returned
    /\ status = 2
    /\ result.status = 2
    /\ written.n > 0

\* C7: when the child cannot be spawned the runner returns a spawn error, no tailer
\* is started, no display sink is updated and the buffer is neither created nor
\* changed.
C7_SpawnErrorTouchesNothing ==
    ((rpc # "spawn" /\ child = "unspawned") \/ result.kind = "spawn_error") =>
        /\ Returned
        /\ result.kind = "spawn_error"
        /\ child = "unspawned"
        /\ \A s \in Streams : tpc[s] = "unstarted"
        /\ pb = [len |-> 1000, pos |-> 0, msg |-> <<"Downloading audio">>, cleared |-> FALSE]
        /\ \A i \in 1..5 : logs[i] = <<>>
        /\ ~logs_cleared
        /\ logs_buffer = [alloc |-> FALSE, dq |-> <<>>]
        /\ appended = <<>>

\* C7 witness: the spawn failed and the failure went all the way to the user.
C7_Witness == result.kind = "spawn_error" /\ ds = "reported"

\* C8: when the child fails, the download bar and the log bars are cleared
\* (finish_and_clear) before the failure is surfaced.
C8_ClearedBeforeSurfaced ==
    (ds = "reported" /\ result.kind = "child_failure") => (pb.cleared /\ logs_cleared)

\* C9: when the child fails, what is surfaced includes each line the buffer holds,
\* exactly once.
C9_BufferReplayedOnce ==
    (ds = "reported" /\ result.kind = "child_failure") =>
        \A i \in 1..Len(logs_buffer.dq) : Occurrences(logs_buffer.dq[i], stderr_out) = 1

\* C10: a tailer holds the buffer lock only for the push and the snapshot, never
\* while it writes to the log bars.
C10_LockNotHeldOverRefresh ==
    \A s \in Streams : tpc[s] = "refresh" => lock # s

\* a line of the loop followed on its own that has been parsed and not yet routed
AtReading == ppc = "route"

\* C11: for the line of the documentation, "[download]  81.6% of   59.10MiB at
\* 3.47MiB/s ETA 00:01", the parser returns permille 816, the speed token and the
\* token after ETA.
C11_SampleLineReading ==
    (AtReading /\ pline = SampleLine) =>
        preading = [some |-> TRUE, permille |-> 816,
                    speed |-> << <<"3", ".", "4", "7", "M", "i", "B", "/", "s">> >>,
                    eta |-> << <<"0", "0", ":", "0", "1">> >>]

\* C12, as stated: for every [download] line whose token before the first % is D or
\* D.d, D any non-negative integer, the parser returns permille min(1000, D*10 + d).
C12_PermilleOfAnyWhole ==
    AtReading =>
        /\ \A D \in SmallWholes, f \in FracForms, tl \in Tails :
              pline = ProgressLine(DecStr(D), f.text, tl) =>
                  preading.some /\ preading.permille = Min(1000, D * 10 + f.d)
        /\ \A w \in {U64MaxDigits, U64OverDigits}, f \in FracForms :
              pline = ProgressLine(w, f.text, TAIL_SAMPLE) =>
                  preading.some /\ preading.permille = 1000

\* C12, amended: for every [download] line whose token before the first % is D or D.d
\* with D a non-negative integer of at most u64::MAX, the parser returns permille
\* min(1000, D*10 + d), d = 0 without a fraction; every reading is within 0..1000.
C12_PermilleClamped ==
    AtReading =>
        /\ \A D \in SmallWholes, f \in FracForms, tl \in Tails :
              pline = ProgressLine(DecStr(D), f.text, tl) =>
                  preading.some /\ preading.permille = Min(1000, D * 10 + f.d)
        /\ \A f \in FracForms :
              pline = ProgressLine(U64MaxDigits, f.text, TAIL_SAMPLE) =>
                  preading.some /\ preading.permille = 1000
        /\ preading.permille >= 0 /\ preading.permille <= 1000

\* C12 witness: 150.6% has been parsed, and clamped.
C12_Witness ==
    /\ AtReading
    /\ pline = ProgressLine(<<"1", "5", "0">>, <<".", "6">>, TAIL_SAMPLE)
    /\ preading.some
    /\ preading.permille = 1000

\* C13: the parser yields none for every line that does not start with [download],
\* that has no %, or whose token before % has a whole part that is no number; the
\* tailer then sets the label, pushes the line to the buffer as a log line, and
\* goes on to the next line.
C13_NoReadingIsALogLine ==
    /\ [](AtReading /\ pline \in NoMarkerLines \cup NoPercentLines \cup NonNumericLines
              => preading = None)
    /\ [][(AtReading /\ pline \in NoMarkerLines \cup NoPercentLines \cup NonNumericLines)
              => /\ ppc' = "next"
                 /\ logs_buffer'.dq = Append(logs_buffer.dq, pline)
                 /\ logs'[Len(logs_buffer.dq) + 1] = <<ESC_GRAY>> \o pline \o <<ESC_RESET>>
                 /\ pb'.msg = <<"Downloading audio">>
                 /\ pb'.pos = pb.pos]_vars

\* C13 witness: "[download]  N/A% .." went to the buffer, and a further line after it.
C13_Witness ==
    /\ ppc = "next"
    /\ pcount = 2
    /\ Len(logs_buffer.dq) = 2
    /\ logs_buffer.dq[1] \in NonNumericLines
    /\ logs_buffer.dq[2] \in NoMarkerLines

\* C14: a progress line whose token after `at` is Unknown yields speed none, one whose
\* token after ETA is Unknown yields eta none; the reading has the line's permille.
C14_UnknownIsNone ==
    AtReading =>
        \A D \in SmallWholes, f \in FracForms :
            /\ \A tl \in UnknownSpeedTails :
                  pline = ProgressLine(DecStr(D), f.text, tl) =>
                      /\ preading.some
                      /\ preading.permille = Min(1000, D * 10 + f.d)
                      /\ preading.speed = <<>>
            /\ \A tl \in UnknownEtaTails :
                  pline = ProgressLine(DecStr(D), f.text, tl) =>
                      /\ preading.some
                      /\ preading.permille = Min(1000, D * 10 + f.d)
                      /\ preading.eta = <<>>

\* C14 witness: "[download]  81.6% of 5.00MiB at Unknown B/s ETA Unknown" has been
\* parsed.
C14_Witness ==
    /\ AtReading
    /\ pline = ProgressLine(<<"8", "1">>, <<".", "6">>, TAIL_UNKNOWN)
    /\ preading = [some |-> TRUE, permille |-> 816, speed |-> <<>>, eta |-> <<>>]

\* C15: whenever no tailer is inside its append-and-refresh step, log bar i shows the
\* buffer's i-th line (oldest first) for i up to the buffer's length, and every bar
\* beyond is empty.
C15_BankMirrorsBuffer ==
    (\A s \in Streams : tpc[s] # "refresh") =>
        \A i \in 1..5 :
            logs[i] = IF i <= Len(logs_buffer.dq)
                      THEN <<ESC_GRAY>> \o logs_buffer.dq[i] \o <<ESC_RESET>>
                      ELSE <<>>

\* C15 witness: the buffer has evicted a line, no tailer is inside the step, one
\* tailer waits with its next line and the other one is alive.
C15_Witness ==
    /\ Len(appended) > 5
    /\ lock = "free"
    /\ \E s \in Streams : tpc[s] = "lock"
    /\ \E s \in Streams : tpc[s] = "read"

\* C17: every line the child writes is taken by its stream's tailer and routed before
\* the runner returns: a tailer stops only at end-of-stream, and no line is lost.
C17_EveryLineConsumed ==
    /\ \A s \in Streams : tpc[s] = "done" => child = "exited"
    /\ (Returned /\ result.kind \in {"ok", "child_failure"}) => Len(appended) = written.plain

\* the stream and the number of a log line that tells its stream
LineTag ==
    [l \in StreamPlainLines |->
        CHOOSE tag \in Streams \X (1..MaxLines) : StreamLine(tag[1], tag[2]) = l]

\* in a sequence of log lines, those of one stream stand in the order the child
\* wrote them
StreamOrdered(seq) ==
    \A i, j \in 1..Len(seq) :
        (i < j /\ LineTag[seq[i]][1] = LineTag[seq[j]][1])
            => LineTag[seq[i]][2] < LineTag[seq[j]][2]

\* C16: two log lines of one stream that are both in the buffer stand in the order
\* the child wrote them, as they do in the order of the pushes.
C16_StreamOrderKept ==
    /\ StreamOrdered(logs_buffer.dq)
    /\ StreamOrdered(appended)

\* C16 witness: the buffer holds two lines of one stream, and a line of the other
\* stream that was written after them stands before them.
C16_Witness ==
    \E i, j, k \in 1..Len(logs_buffer.dq) :
        /\ i < j /\ j < k
        /\ LineTag[logs_buffer.dq[i]][1] # LineTag[logs_buffer.dq[j]][1]
        /\ LineTag[logs_buffer.dq[j]][1] = LineTag[logs_buffer.dq[k]][1]
        /\ LineTag[logs_buffer.dq[i]][2] > LineTag[logs_buffer.dq[k]][2]

\* the message the bar shows for the progress line of stream s
ProgressShown(s) ==
    ProgressMessage(Parsed[StreamProgress(s)].permille, Parsed[StreamProgress(s)].speed)

\* C18: a line read from one stream changes neither position nor message of the sink
\* of the other stream's progress: while the sink shows the reading of stdout's
\* progress line, a log line read from stderr leaves it alone, and the other way
\* round.
C18_OwnSinkOnly ==
    [][/\ (tpc["stderr"] = "read" /\ tpc'["stderr"] = "lock"
              /\ pb_out.msg = ProgressShown("stdout"))
           => (pb_out'.pos = pb_out.pos /\ pb_out'.msg = pb_out.msg)
       /\ (tpc["stdout"] = "read" /\ tpc'["stdout"] = "lock"
              /\ pb_err.msg = ProgressShown("stderr"))
           => (pb_err'.pos = pb_err.pos /\ pb_err'.msg = pb_err.msg)]_vars

\* C19: the two tailers are never both between taking and releasing the buffer's
\* lock; the lock is held by the one tailer that is.
C19_BufferMutex ==
    /\ ~(tpc["stdout"] = "refresh" /\ tpc["stderr"] = "refresh")
    /\ \A s \in Streams : tpc[s] = "refresh" <=> lock = s

\* C19 witness: one tailer holds the lock while the other waits for it with a line.
C19_Witness ==
    /\ tpc["stdout"] = "refresh"
    /\ lock = "stdout"
    /\ tpc["stderr"] = "lock"

\* C20: one run spawns the child at most once: the runner never goes back to the
\* spawn, a child that was spawned is never replaced by a new one, and a spawn error
\* or a non-successful exit is what the caller gets.
C20_SpawnedAtMostOnce ==
    /\ [][rpc # "spawn" => rpc' # "spawn"]_vars
    /\ [][child # "unspawned" => child' # "unspawned"]_vars
    /\ [][child = "exited" => child' = "exited"]_vars
    /\ [](Returned /\ child = "unspawned" => result.kind = "spawn_error")
    /\ [](Returned /\ status \notin {NoStatus, 0}
             => result = [kind |-> "child_failure", status |-> status])

\* C20 witness: the child failed, was not started again, and the failure reached the
\* caller.
C20_Witness ==
    /\ Returned
    /\ child = "exited"
    /\ result.kind = "child_failure"
    /\ ds = "failed"

(***************************************************************************)
(* Batch mode and download_and_split.                                      *)
(***************************************************************************)
\* s is a prefix of t
IsPrefix(s, t) == Len(s) <= Len(t) /\ SubSeq(t, 1, Len(s)) = s

\* the valid URLs of the file, in file order
ValidUrls == SelectSeq(urls, IsValidUrl)

\* the URLs whose download_and_split returned an error, as main printed them
FailedUrls == SelectSeq(out_lines, LAMBDA o : o.kind = "failed")

\* the download loop is over, overall.finish_with_message is next
LoopOver == mpc = "loop" /\ vidx = Len(valid_urls)

BatchEnded == mpc = "done"

\* the batch never attempts anything but the valid URLs in file order, each once;
\* it never returns an error; when it ends every valid URL was attempted, the
\* counter stands at the number of listed URLs and main returns Ok
BatchRunsThrough ==
    /\ IsPrefix(attempted, ValidUrls)
    /\ main_result # "error"
    /\ (LoopOver \/ BatchEnded) => /\ attempted = ValidUrls
                                   /\ overall.pos = Len(urls)
                                   /\ overall.pos = overall.len
    /\ BatchEnded => main_result = "ok"

\* C21: in batch mode every valid URL is attempted exactly once, in file order,
\* whether or not earlier URLs failed; a failing URL never aborts the batch; the
\* batch ends, and then the overall counter equals the number of listed URLs
\* (valid and skipped) and main returns success
C21_BatchRunsThrough == [](BatchRunsThrough) /\ <>(BatchEnded)

\* a batch of three lines, one of them invalid, has ended after its first valid URL
\* failed and its second one was attempted
C21_Witness ==
    /\ BatchEnded
    /\ Len(urls) = MaxUrls
    /\ Len(ValidUrls) = 2
    /\ Len(FailedUrls) >= 1
    /\ FailedUrls[1].url = attempted[1]
    /\ Len(attempted) = 2
    /\ overall.pos = MaxUrls
    /\ main_result = "ok"

\* the steps of download_and_split that succeeded so far
DownloadSucceeded == rpc = "returned" /\ result.kind = "ok"
MetadataFetched == json_spinner = "cleared"
ChaptersExtracted == chapters # <<>>
NoSplitFailed == \A i \in 1..Len(split_log) : split_log[i].what # "fail"
EveryChapterTaken == Len(split_log) = Len(chapters)

\* one step of the program keeps the order of download_and_split: the spinner of the
\* metadata fetch appears only after a download that succeeded, a chapter is taken
\* only after the metadata came and a non-empty list was extracted, the file goes
\* only when keep is false and every step before succeeded, and a step that fails or
\* follows a failure does not touch the file
StepsGated ==
    /\ (json_spinner' # json_spinner /\ json_spinner' # "none") => DownloadSucceeded
    /\ (chapters' # chapters /\ chapters' # <<>>) => DownloadSucceeded /\ MetadataFetched
    /\ (split_log' # split_log /\ split_log' # <<>>) =>
           DownloadSucceeded /\ MetadataFetched /\ ChaptersExtracted
    /\ (file' = "deleted" /\ file # "deleted") =>
           /\ ~keep
           /\ DownloadSucceeded /\ MetadataFetched /\ ChaptersExtracted
           /\ EveryChapterTaken /\ NoSplitFailed
           /\ ds' = "ok"
    /\ (ds' = "failed" \/ ds = "failed") => file' = file

\* C22: in download_and_split the steps are strictly ordered and each gates the
\* next: metadata is fetched only after the download succeeded, splitting starts
\* only after a non-empty chapter list was extracted, the combined file is deleted
\* only when keep is false and the download, the metadata and every chapter split
\* succeeded; on any failure the file is left in place
C22_StepsGated == [][StepsGated]_vars

\* a call went through every step, two chapters split, and removed the file
C22_Witness ==
    /\ ds = "ok"
    /\ ~keep
    /\ file = "deleted"
    /\ DownloadSucceeded /\ MetadataFetched
    /\ Len(chapters) = MaxChapters
    /\ \A i \in 1..Len(split_log) : split_log[i].what = "ok"
    /\ EveryChapterTaken

\* the chapters whose duration is not finite or is under one second: half a second,
\* an end before the start (0.0 after max), and the one whose duration overflows
SkippedChapters == {CH_HALF_SECOND, CH_BACKWARDS, CH_OVERFLOW}

\* the entries of the split log that were counted
Counted == {i \in 1..Len(split_log) : split_log[i].what \in {"skip", "ok"}}

InSplitLoop == ds \in {"split", "ok", "failed"} /\ chapters # <<>>

\* C23: in the split loop chapters are taken in list order and the split counter is
\* incremented exactly once per processed chapter: a chapter of non-finite or
\* under-1-second duration is skipped without running the splitter but is counted;
\* the first splitter failure stops the loop, no later chapter is attempted and the
\* counter stays below the chapter total
C23_SplitLoopCounts ==
    InSplitLoop =>
        /\ Len(split_log) <= Len(chapters)
        /\ \A i \in 1..Len(split_log) :
               /\ split_log[i].index = i - 1
               /\ (split_log[i].what = "skip") <=> (chapters[i] \in SkippedChapters)
               /\ (split_log[i].what = "fail") => (i = Len(split_log) /\ ds = "failed")
        /\ split_bar.len = Len(chapters)
        /\ split_bar.pos = Cardinality(Counted)
        /\ (~NoSplitFailed) => split_bar.pos < split_bar.len
        /\ (ds = "failed" /\ split_log # <<>>) => ~NoSplitFailed

\* of two chapters the first was skipped and counted, the splitter failed on the
\* second one
C23_Witness ==
    /\ ds = "failed"
    /\ Len(chapters) = MaxChapters
    /\ Len(split_log) = 2
    /\ split_log[1].what = "skip"
    /\ split_log[2].what = "fail"
    /\ split_bar.pos = 1

====
